---- MODULE Spec2Model ----
(***************************************************************************)
(* Model of the Template List View                                         *)
(* (src/frontend/pages/performance/templates/index.tsx): the React state   *)
(* of PerformanceTemplatesPage, its effects, loadTemplates and             *)
(* deleteTemplate, together with the list and delete requests in flight    *)
(* and the backend's collection of templates they act on; and of the API   *)
(* Bootstrap (src/unnamed/part_000): the steps of bootstrap() and the      *)
(* middleware it installs in front of the application's routes.            *)
(*                                                                         *)
(* JavaScript values that may or may not be arrays (res.data, data.items,  *)
(* data.data, the templates state) are records [t, v]: t = "arr" with v    *)
(* the elements, t = "nil" for null/undefined, t = "other" for any other   *)
(* value (a number, a plain object: no .length, no .filter).               *)
(***************************************************************************)
EXTENDS Integers, Sequences, FiniteSets, Bags, TLC

\* ---------------------------------------------------------------- bounds
\* Template identifiers are 1..MaxIds.
MaxIds == 2
\* The user starts a delete only while fewer requests than this are outstanding.
MaxOutstanding == 2

\* ---------------------------------------------------------------- values
Ids == 1..MaxIds
\* isActive of a template summary: true, false, or the field is absent.
Flags == {"true", "false", "absent"}
Template == [id : Ids, isActive : Flags]

Arr(s) == [t |-> "arr", v |-> s]
Nil == [t |-> "nil", v |-> << >>]
Other == [t |-> "other", v |-> << >>]

\* string | null state values
Null == "<null>"
\* a response field that is undefined
Absent == "<absent>"

\* The messages the view sets, verbatim.
MsgNotAuthenticated == "Not authenticated. Please login again."
MsgNoActive == "No active templates available. Please contact HR."
MsgLoadForbidden == "You do not have permission to view templates"
MsgAuthFailed == "Authentication failed. Please login again."
MsgLoadGeneric == "Failed to load templates. Please check your connection."
MsgDeleteForbidden == "You do not have permission"
MsgDeleteGeneric == "Failed to delete template"
\* A non-empty message in an error response's body.
MsgServer == "server message"

Roles == {"HR", "MANAGER", "OTHER"}

\* `delete-${id}`, and null, as values of operationLoading
DeleteKey(id) == <<"delete", id>>
NoOperation == << >>

VARIABLES
  currentRole,       \* getCurrentRole()
  token,             \* localStorage holds a "token" item
  routerReady,       \* router.isReady
  mounted,           \* the component's effects have run
  templates,         \* useState<any[]>([])
  loading,           \* useState(true)
  error,             \* useState<string | null>(null)
  operationLoading,  \* useState<string | null>(null)
  gets,              \* bag of GET /performance/templates requests in flight
  dels,              \* bag of the ids of the DELETE requests in flight
  db,                \* the backend's templates, in listing order
  ev,                \* what the step just taken did (calls, pushes, console output)
  bootPc,            \* where bootstrap() stands
  envFile,           \* PORT in the .env file
  processEnv,        \* process.env.PORT
  bootLog,           \* the calls bootstrap() has made, in order
  listening,         \* the port the server is bound to
  lastReq            \* the request handled last, and how far it got

viewVars == <<currentRole, token, routerReady, mounted, templates, loading,
              error, operationLoading, gets, dels, db, ev>>
serverVars == <<bootPc, envFile, processEnv, bootLog, listening, lastReq>>
vars == <<viewVars, serverVars>>

isHR == currentRole = "HR"
isManager == currentRole = "MANAGER"

\* ---------------------------------------------------------------- helpers
RECURSIVE Copies(_, _)
Copies(x, n) == IF n = 0 THEN << >> ELSE <<x>> \o Copies(x, n - 1)

RECURSIVE BagOf(_, _)
BagOf(x, n) == IF n = 0 THEN EmptyBag ELSE SetToBag({x}) (+) BagOf(x, n - 1)

RECURSIVE RemoveId(_, _)
RemoveId(s, id) ==
  IF s = << >> THEN << >>
  ELSE IF Head(s).id = id THEN RemoveId(Tail(s), id)
  ELSE <<Head(s)>> \o RemoveId(Tail(s), id)

IdsOf(s) == {s[i].id : i \in DOMAIN s}

\* Listings: the templates 1..n in creation order, for every n up to MaxIds
\* and every choice of their isActive fields.
Listings ==
  {s \in UNION {[1..n -> Template] : n \in 0..MaxIds} :
     \A i \in DOMAIN s : s[i].id = i}

Outstanding == BagCardinality(gets) + BagCardinality(dels)

\* A list request: not yet served, or served when the backend held snap.
GetSent == [served |-> FALSE, snap |-> << >>]
GetServed(s) == [served |-> TRUE, snap |-> s]

\* ---------------------------------------------------------------- responses
\* Values a field of a response object can hold, for a backend listing s.
FieldValues(s) == {Nil, Other, Arr(<< >>), Arr(s)}

Body(kind, arr, items, data) ==
  [kind |-> kind, arr |-> arr, items |-> items, data |-> data]
NoBody == Body("none", << >>, Nil, Nil)

\* The 2xx bodies a list request can be answered with, for a listing s:
\* a bare array, an object with any items/data fields, null, or a scalar.
Bodies(s) ==
  {Body("array", s, Nil, Nil), Body("nil", << >>, Nil, Nil),
   Body("scalar", << >>, Nil, Nil)}
  \cup {Body("object", << >>, i, d) : i \in FieldValues(s), d \in FieldValues(s)}

\* err: err.response undefined (network failure), or a status with an
\* optional data.message.
Failure(hasResponse, status, message) ==
  [hasResponse |-> hasResponse, status |-> status, message |-> message]
NoFailure == Failure(FALSE, 0, Absent)
Failures ==
  {Failure(FALSE, 0, Absent)}
  \cup {Failure(TRUE, st, m) : st \in {400, 401, 403},
                              m \in {Absent, "", MsgServer}}

\* a || b on an optional string: "" and undefined are falsy
OrElse(m, fallback) == IF m = Absent \/ m = "" THEN fallback ELSE m

Event(op, id, loadCalls, pushes, body, list, threw, err) ==
  [op |-> op, id |-> id, loadCalls |-> loadCalls, pushes |-> pushes,
   body |-> body, list |-> list, threw |-> threw, err |-> err]

\* ---------------------------------------------------------------- Init
\* ------------------------------------------------------------ bootstrap values
\* PORT as the process environment holds it when the process starts, and as the
\* .env file gives it: not set, set to the empty string, or set to a port.
EnvPorts == {Absent, "", "4000"}
FilePorts == {Absent, "", "5000"}
\* const PORT = process.env.PORT || 3001, as `${PORT}` prints it
DefaultPort == "3001"

\* app.enableCors({ origin, credentials, methods, allowedHeaders })
CorsOrigin == "http://localhost:3000"
CorsCredentials == TRUE
CorsMethods == {"GET", "POST", "PATCH", "PUT", "DELETE"}
CorsAllowedHeaders == {"Content-Type", "Authorization"}

\* The calls of bootstrap(), by name.
StepConfig == "dotenv.config"
StepCreate == "NestFactory.create"
StepJson == "use(json)"
StepUrlencoded == "use(urlencoded)"
StepCors == "enableCors"
StepSwagger == "SwaggerModule.setup"
StepListen == "listen"
StepReady == "log(ready)"

\* Requests that reach the listening server: the Origin header (Absent on a
\* same-origin or non-browser request), the method, and the header names sent
\* (on a preflight, the names asked for).
Origins == {Absent, CorsOrigin, "http://evil.example"}
Methods == CorsMethods \cup {"OPTIONS", "HEAD"}
HeaderNames == CorsAllowedHeaders \cup {"X-Requested-With"}
Requests == [origin : Origins, method : Methods, headers : SUBSET HeaderNames]

\* What became of a request: whether it reached the application's routes, and
\* the CORS headers of the response.
Handled(req, routed, allowOrigin, allowCredentials) ==
  [origin |-> req.origin, method |-> req.method, headers |-> req.headers,
   handled |-> TRUE, routed |-> routed, allowOrigin |-> allowOrigin,
   allowCredentials |-> allowCredentials]
NoRequest ==
  [origin |-> Absent, method |-> "", headers |-> {}, handled |-> FALSE,
   routed |-> FALSE, allowOrigin |-> Absent, allowCredentials |-> FALSE]

\* No server process is under watch.
ServerIdle ==
  /\ bootPc = "idle"
  /\ envFile = Absent
  /\ processEnv = Absent
  /\ bootLog = << >>
  /\ listening = Absent
  /\ lastReq = NoRequest

\* node starts the compiled main file: bootstrap() is about to be called.
ServerInit ==
  /\ bootPc = "start"
  /\ envFile \in FilePorts
  /\ processEnv \in EnvPorts
  /\ bootLog = << >>
  /\ listening = Absent
  /\ lastReq = NoRequest

\* -------------------------------------------------------------------- the view
ViewInit ==
  /\ currentRole \in Roles
  /\ token \in BOOLEAN
  /\ routerReady \in BOOLEAN
  /\ mounted = FALSE
  /\ templates = Arr(<< >>)
  /\ loading = TRUE
  /\ error = Null
  /\ operationLoading = NoOperation
  /\ gets = EmptyBag
  /\ dels = EmptyBag
  /\ db \in Listings
  /\ ev = Event("init", 0, 0, << >>, NoBody, Nil, FALSE, NoFailure)

\* No page is open.
ViewIdle ==
  /\ currentRole = "OTHER"
  /\ token = FALSE
  /\ routerReady = FALSE
  /\ mounted = FALSE
  /\ templates = Arr(<< >>)
  /\ loading = TRUE
  /\ error = Null
  /\ operationLoading = NoOperation
  /\ gets = EmptyBag
  /\ dels = EmptyBag
  /\ db = << >>
  /\ ev = Event("init", 0, 0, << >>, NoBody, Nil, FALSE, NoFailure)

\* The view's runs start from ViewInit, with no server process under watch.
Init == ViewInit /\ ServerIdle

\* ---------------------------------------------------------------- loadTemplates
\* const list = Array.isArray(data) ? data : data?.items ?? data?.data ?? [];
Normalize(body) ==
  IF body.kind = "array" THEN Arr(body.arr)
  ELSE IF body.kind = "object"
    THEN IF body.items # Nil THEN body.items
         ELSE IF body.data # Nil THEN body.data
         ELSE Arr(<< >>)
  ELSE Arr(<< >>)

\* Fault variant of KeepsForManager: t.isActive === true.
KeepsOnlyTrue(t) == t.isActive = "true"

\* t.isActive !== false
KeepsForManager(t) == t.isActive # "false"

\* list.filter((t) => t.isActive !== false)
RECURSIVE FilterActive(_)
FilterActive(list) ==
  IF list = << >> THEN << >>
  ELSE IF KeepsForManager(Head(list))
    THEN <<Head(list)>> \o FilterActive(Tail(list))
    ELSE FilterActive(Tail(list))

\* x.length === 0 and x.length > 0; x.length is undefined unless x is an array
LengthIsZero(x) == x.t = "arr" /\ Len(x.v) = 0
LengthIsPositive(x) == x.t = "arr" /\ Len(x.v) > 0

\* Fault variant of LoadTemplatesCall: the return of line 51 is missing.
LoadTemplatesCallNoReturn(n) ==
  /\ loading' = TRUE
  /\ error' = IF token THEN Null ELSE MsgNotAuthenticated
  /\ gets' = gets (+) BagOf(GetSent, n)

\* n calls of loadTemplates in one task, each run up to its await (a token is
\* stored) or to its return (none is): lines 42-58, and 99-101 on the return.
LoadTemplatesCall(n) ==
  IF token
    THEN /\ loading' = TRUE
         /\ error' = Null
         /\ gets' = gets (+) BagOf(GetSent, n)
    ELSE /\ loading' = FALSE
         /\ error' = MsgNotAuthenticated
         /\ gets' = gets

\* the router.push calls of those n calls
LoadTemplatesPushes(n) == IF token THEN << >> ELSE Copies("/login", n)

\* The message the catch block of loadTemplates sets.
LoadErrorMessage(err) ==
  IF err.hasResponse /\ err.status = 403 THEN MsgLoadForbidden
  ELSE IF err.hasResponse /\ err.status = 401 THEN MsgAuthFailed
  ELSE OrElse(err.message, MsgLoadGeneric)

\* The router.push calls of the catch block of loadTemplates.
LoadErrorPushes(err) ==
  IF err.hasResponse /\ err.status = 401 THEN <<"/login">> ELSE << >>

\* Fault variant of LoadCatch: line 98 is missing.
LoadCatchKeepsList(err) ==
  /\ error' = LoadErrorMessage(err)
  /\ templates' = templates
  /\ loading' = FALSE

\* catch and finally of loadTemplates
LoadCatch(err) ==
  /\ error' = LoadErrorMessage(err)
  /\ templates' = Arr(<< >>)
  /\ loading' = FALSE

\* Fault variant of ErrorAfterLoad: the branch of lines 78-79 is missing.
ErrorAfterLoadNoNotice(list, filteredList) ==
  IF LengthIsZero(filteredList) THEN Null ELSE error

\* The message state after the length checks of lines 78-82.
ErrorAfterLoad(list, filteredList) ==
  IF LengthIsZero(filteredList) /\ LengthIsPositive(list) THEN MsgNoActive
  ELSE IF LengthIsZero(filteredList) THEN Null
  ELSE error

\* Fault variant of GuardPushes: only HR is let through.
GuardPushesHROnly == IF ~isHR THEN <<"/dashboard">> ELSE << >>

\* The guard effect: if (!isHR && !isManager) router.push("/dashboard")
GuardPushes == IF ~isHR /\ ~isManager THEN <<"/dashboard">> ELSE << >>

\* The view's effects run after the first render: the role guard, the mount
\* load, and the router-ready load when the router is ready already.
Mount ==
  /\ ~mounted
  /\ mounted' = TRUE
  /\ LET n == IF routerReady THEN 2 ELSE 1
     IN /\ LoadTemplatesCall(n)
        /\ ev' = Event("mount", 0, n, GuardPushes \o LoadTemplatesPushes(n),
                       NoBody, Nil, FALSE, NoFailure)
  /\ UNCHANGED <<currentRole, token, routerReady, templates, operationLoading,
                 dels, db,
                 serverVars>>

\* router.isReady turns true after the mount: the effect of lines 35-39 reruns.
RouterReady ==
  /\ mounted
  /\ ~routerReady
  /\ routerReady' = TRUE
  /\ LoadTemplatesCall(1)
  /\ ev' = Event("routerReady", 0, 1, LoadTemplatesPushes(1),
                 NoBody, Nil, FALSE, NoFailure)
  /\ UNCHANGED <<currentRole, token, mounted, templates, operationLoading,
                 dels, db,
                 serverVars>>

\* The backend serves a list request from its current collection.
ServeList ==
  /\ BagIn(GetSent, gets)
  /\ gets' = (gets (-) SetToBag({GetSent})) (+) SetToBag({GetServed(db)})
  /\ ev' = Event("serveList", 0, 0, << >>, NoBody, Nil, FALSE, NoFailure)
  /\ UNCHANGED <<currentRole, token, routerReady, mounted, templates, loading,
                 error, operationLoading, dels, db,
                 serverVars>>

\* await api.get resolves with a 2xx body: lines 60-84, then 99-101; a
\* TypeError thrown by list.filter is caught by lines 85-98.
LoadResolve(g, body) ==
  /\ BagIn(g, gets)
  /\ g.served
  /\ body \in Bodies(g.snap)
  /\ gets' = gets (-) SetToBag({g})
  /\ LET list == Normalize(body)
         filters == isManager /\ ~isHR
         threw == filters /\ list.t # "arr"
         filteredList == IF filters THEN Arr(FilterActive(list.v)) ELSE list
     IN /\ IF threw
             THEN LoadCatch(NoFailure)
             ELSE /\ error' = ErrorAfterLoad(list, filteredList)
                  /\ templates' = filteredList
                  /\ loading' = FALSE
        /\ ev' = Event("loadResolve", 0, 0, << >>, body, list, threw, NoFailure)
  /\ UNCHANGED <<currentRole, token, routerReady, mounted, operationLoading,
                 dels, db,
                 serverVars>>

\* Fault variant of LoadReject: the failed request is sent again.
LoadRejectRetries(err) ==
  /\ BagIn(GetSent, gets)
  /\ err \in Failures
  /\ LoadCatch(err)
  /\ ev' = Event("loadReject", 0, 0, LoadErrorPushes(err), NoBody, Nil, FALSE, err)
  /\ UNCHANGED <<currentRole, token, routerReady, mounted, operationLoading,
                 gets, dels, db, serverVars>>

\* await api.get rejects (an error status, or no answer at all): lines 85-101.
LoadReject(err) ==
  /\ BagIn(GetSent, gets)
  /\ err \in Failures
  /\ gets' = gets (-) SetToBag({GetSent})
  /\ LoadCatch(err)
  /\ ev' = Event("loadReject", 0, 0, LoadErrorPushes(err), NoBody, Nil, FALSE, err)
  /\ UNCHANGED <<currentRole, token, routerReady, mounted, operationLoading,
                 dels, db,
                 serverVars>>

\* ----------------------------------------------------------------------- render
\* {isHR && (<Link href="/performance/templates/create"> ... )}
CreateShown == isHR

\* {isManager && ( ... Read-only mode ... )}
BannerShown == isManager

\* The table is shown and has a row for template id, with its View link.
RowShown(id) ==
  /\ ~loading
  /\ LengthIsPositive(templates)
  /\ id \in IdsOf(templates.v)

\* {isHR && (<button onClick={() => deleteTemplate(t._id)} ...>)} in that row
DeleteShown(id) == RowShown(id) /\ isHR

\* ---------------------------------------------------------------- deleteTemplate
\* Fault variant of DeleteEnabled: the button is shown to every role.
DeleteEnabledAnyRole(id) ==
  /\ mounted
  /\ ~loading
  /\ LengthIsPositive(templates)
  /\ id \in IdsOf(templates.v)
  /\ operationLoading # DeleteKey(id)

\* The row of template id shows an enabled Delete button: lines 211, 222,
\* 235-239.
DeleteEnabled(id) ==
  /\ mounted
  /\ isHR
  /\ ~loading
  /\ LengthIsPositive(templates)
  /\ id \in IdsOf(templates.v)
  /\ operationLoading # DeleteKey(id)

\* Fault variant of DeleteDecline: the marker is set before the dialog.
DeleteDeclineMarked(id) ==
  /\ DeleteEnabled(id)
  /\ operationLoading' = DeleteKey(id)
  /\ ev' = Event("deleteDecline", id, 0, << >>, NoBody, Nil, FALSE, NoFailure)
  /\ UNCHANGED <<currentRole, token, routerReady, mounted, templates, loading,
                 error, gets, dels, db,
                 serverVars>>

\* The user clicks Delete and dismisses the confirm dialog: line 108.
DeleteDecline(id) ==
  /\ DeleteEnabled(id)
  /\ ev' = Event("deleteDecline", id, 0, << >>, NoBody, Nil, FALSE, NoFailure)
  /\ UNCHANGED <<currentRole, token, routerReady, mounted, templates, loading,
                 error, operationLoading, gets, dels, db,
                 serverVars>>

\* The user clicks Delete and accepts the confirm dialog: lines 108-118.
DeleteConfirm(id) ==
  /\ DeleteEnabled(id)
  /\ Outstanding < MaxOutstanding
  /\ operationLoading' = DeleteKey(id)
  /\ dels' = dels (+) SetToBag({id})
  /\ ev' = Event("deleteConfirm", id, 0, << >>, NoBody, Nil, FALSE, NoFailure)
  /\ UNCHANGED <<currentRole, token, routerReady, mounted, templates, loading,
                 error, gets, db,
                 serverVars>>

\* The rows of list other than those of template id.
RECURSIVE WithoutId(_, _)
WithoutId(list, id) ==
  IF list = << >> THEN << >>
  ELSE IF Head(list).id = id THEN WithoutId(Tail(list), id)
  ELSE <<Head(list)>> \o WithoutId(Tail(list), id)

\* Fault variant of DeleteResolve: the row is taken out locally and no
\* reload is started.
DeleteResolveLocal(id) ==
  /\ BagIn(id, dels)
  /\ dels' = dels (-) SetToBag({id})
  /\ db' = RemoveId(db, id)
  /\ templates' = IF templates.t = "arr"
                    THEN Arr(WithoutId(templates.v, id)) ELSE templates
  /\ operationLoading' = NoOperation
  /\ ev' = Event("deleteResolve", id, 0, << >>, NoBody, Nil, FALSE, NoFailure)
  /\ UNCHANGED <<currentRole, token, routerReady, mounted, loading, error, gets,
                 serverVars>>

\* await api.delete resolves, the backend having removed the template:
\* line 120 (loadTemplates is not awaited: it runs to its await or return),
\* then the finally block, lines 130-132.
DeleteResolve(id) ==
  /\ BagIn(id, dels)
  /\ dels' = dels (-) SetToBag({id})
  /\ db' = RemoveId(db, id)
  /\ LoadTemplatesCall(1)
  /\ operationLoading' = NoOperation
  /\ ev' = Event("deleteResolve", id, 1, LoadTemplatesPushes(1),
                 NoBody, Nil, FALSE, NoFailure)
  /\ UNCHANGED <<currentRole, token, routerReady, mounted, templates,
                 serverVars>>

\* Fault variant of DeleteErrorMessage: the server's message is used for
\* every status but 403.
DeleteErrorMessageAny(err) ==
  IF err.hasResponse /\ err.status = 403 THEN MsgDeleteForbidden
  ELSE OrElse(err.message, MsgDeleteGeneric)

\* The message the catch block of deleteTemplate sets.
DeleteErrorMessage(err) ==
  IF err.hasResponse /\ err.status = 403 THEN MsgDeleteForbidden
  ELSE IF err.hasResponse /\ err.status = 400
    THEN OrElse(err.message, MsgDeleteGeneric)
  ELSE MsgDeleteGeneric

\* await api.delete rejects: lines 121-132.
DeleteReject(id, err) ==
  /\ BagIn(id, dels)
  /\ err \in Failures
  /\ dels' = dels (-) SetToBag({id})
  /\ error' = DeleteErrorMessage(err)
  /\ operationLoading' = NoOperation
  /\ ev' = Event("deleteReject", id, 0, << >>, NoBody, Nil, FALSE, err)
  /\ UNCHANGED <<currentRole, token, routerReady, mounted, templates, loading,
                 gets, db,
                 serverVars>>

\* The token item leaves localStorage (a logout elsewhere): the view only
\* reads it, lines 46 and 112.
StorageClear ==
  /\ token
  /\ token' = FALSE
  /\ ev' = Event("storageClear", 0, 0, << >>, NoBody, Nil, FALSE, NoFailure)
  /\ UNCHANGED <<currentRole, routerReady, mounted, templates, loading, error,
                 operationLoading, gets, dels, db,
                 serverVars>>

\* ---------------------------------------------------------------- specification
Next ==
  \/ Mount
  \/ RouterReady
  \/ ServeList
  \/ \E g \in BagToSet(gets) : \E body \in Bodies(g.snap) : LoadResolve(g, body)
  \/ \E err \in Failures : LoadReject(err)
  \/ \E id \in Ids : DeleteDecline(id)
  \/ \E id \in Ids : DeleteConfirm(id)
  \/ \E id \in Ids : DeleteResolve(id)
  \/ \E id \in Ids : \E err \in Failures : DeleteReject(id, err)
  \/ StorageClear

Spec == Init /\ [][Next]_vars

\* The view against a backend whose answers to list requests always arrive:
\* every step of Next but the rejection of a list request.
ReliableNext ==
  \/ Mount
  \/ RouterReady
  \/ ServeList
  \/ \E g \in BagToSet(gets) : \E body \in Bodies(g.snap) : LoadResolve(g, body)
  \/ \E id \in Ids : DeleteDecline(id)
  \/ \E id \in Ids : DeleteConfirm(id)
  \/ \E id \in Ids : DeleteResolve(id)
  \/ \E id \in Ids : \E err \in Failures : DeleteReject(id, err)
  \/ StorageClear

ReliableSpec == Init /\ [][ReliableNext]_vars

\* -------------------------------------------------------------------- bootstrap
\* Has bootstrap() made this call?
Called(step) == \E i \in DOMAIN bootLog : bootLog[i] = step

\* dotenv.config(): a variable of the .env file is set in process.env unless
\* the process environment already has it.
ConfigEnv == IF processEnv # Absent THEN processEnv ELSE envFile

\* dotenv.config(), then console.log of MONGO_URI
BootConfig ==
  /\ bootPc = "start"
  /\ processEnv' = ConfigEnv
  /\ bootLog' = Append(bootLog, StepConfig)
  /\ bootPc' = "config"
  /\ UNCHANGED <<envFile, listening, lastReq, viewVars>>

\* const app = await NestFactory.create(AppModule)
BootCreate ==
  /\ bootPc = "config"
  /\ bootLog' = Append(bootLog, StepCreate)
  /\ bootPc' = "created"
  /\ UNCHANGED <<envFile, processEnv, listening, lastReq, viewVars>>

\* NestFactory.create rejects: bootstrap() has no catch, the process ends.
BootCreateFails ==
  /\ bootPc = "config"
  /\ bootPc' = "crashed"
  /\ UNCHANGED <<envFile, processEnv, bootLog, listening, lastReq, viewVars>>

\* app.use(json({ limit: '10mb' }))
BootUseJson ==
  /\ bootPc = "created"
  /\ bootLog' = Append(bootLog, StepJson)
  /\ bootPc' = "json"
  /\ UNCHANGED <<envFile, processEnv, listening, lastReq, viewVars>>

\* app.use(urlencoded({ limit: '10mb', extended: true }))
BootUseUrlencoded ==
  /\ bootPc = "json"
  /\ bootLog' = Append(bootLog, StepUrlencoded)
  /\ bootPc' = "urlencoded"
  /\ UNCHANGED <<envFile, processEnv, listening, lastReq, viewVars>>

\* Fault variant of BootEnableCors: the call is left out.
BootSkipCors ==
  /\ bootPc = "urlencoded"
  /\ bootPc' = "cors"
  /\ UNCHANGED <<envFile, processEnv, bootLog, listening, lastReq, viewVars>>

\* app.enableCors({ ... })
BootEnableCors ==
  /\ bootPc = "urlencoded"
  /\ bootLog' = Append(bootLog, StepCors)
  /\ bootPc' = "cors"
  /\ UNCHANGED <<envFile, processEnv, listening, lastReq, viewVars>>

\* new DocumentBuilder()...build(), createDocument, SwaggerModule.setup('api')
BootSwagger ==
  /\ bootPc = "cors"
  /\ bootLog' = Append(bootLog, StepSwagger)
  /\ bootPc' = "swagger"
  /\ UNCHANGED <<envFile, processEnv, listening, lastReq, viewVars>>

\* Fault variant of PortToBind: process.env.PORT ?? 3001.
PortToBindNullish == IF processEnv = Absent THEN DefaultPort ELSE processEnv

\* const PORT = process.env.PORT || 3001
PortToBind == IF processEnv = Absent \/ processEnv = "" THEN DefaultPort ELSE processEnv

\* await app.listen(PORT) resolves
BootListen ==
  /\ bootPc = "swagger"
  /\ listening' = PortToBind
  /\ bootLog' = Append(bootLog, StepListen)
  /\ bootPc' = "listening"
  /\ UNCHANGED <<envFile, processEnv, lastReq, viewVars>>

\* await app.listen(PORT) rejects (the port is taken): the process ends.
BootListenFails ==
  /\ bootPc = "swagger"
  /\ bootPc' = "crashed"
  /\ UNCHANGED <<envFile, processEnv, bootLog, listening, lastReq, viewVars>>

\* console.log(`Backend running at ...`); console.log(`Swagger running at ...`)
BootLogReady ==
  /\ bootPc = "listening"
  /\ bootLog' = Append(bootLog, StepReady)
  /\ bootPc' = "ready"
  /\ UNCHANGED <<envFile, processEnv, listening, lastReq, viewVars>>

\* The middleware enableCors installs (the cors package with these options,
\* preflightContinue off): it writes the configured origin and credentials
\* into the response whatever the request's Origin is; it answers an OPTIONS
\* request itself; it hands every other request on to the next handler.
CorsMiddleware(req) ==
  Handled(req, req.method # "OPTIONS", CorsOrigin, CorsCredentials)

\* A request comes in on the bound port and goes through what is installed.
HandleRequest(req) ==
  /\ listening # Absent
  /\ lastReq' = IF Called(StepCors) THEN CorsMiddleware(req)
                ELSE Handled(req, TRUE, Absent, FALSE)
  /\ UNCHANGED <<bootPc, envFile, processEnv, bootLog, listening, viewVars>>

BootNext ==
  \/ BootConfig
  \/ BootCreate
  \/ BootCreateFails
  \/ BootUseJson
  \/ BootUseUrlencoded
  \/ BootEnableCors
  \/ BootSwagger
  \/ BootListen
  \/ BootListenFails
  \/ BootLogReady
  \/ \E req \in Requests : HandleRequest(req)

\* The server's runs start with bootstrap() about to be called and no page open.
BootInit == ViewIdle /\ ServerInit

BootSpec == BootInit /\ [][BootNext]_vars

\* ---------------------------------------------------------------- properties
HasPush(pushes, dest) == \E i \in DOMAIN pushes : pushes[i] = dest

\* A server message is present when err.response.data.message is a
\* non-empty string.
MessagePresent(err) == err.message # Absent /\ err.message # ""

NotExplicitlyInactive(t) == t.isActive \in {"true", "absent"}

LoadSucceeded == ev.op = "loadResolve" /\ ~ev.threw

\* C1: after a load completes successfully the displayed collection is, for
\* a Manager (not HR), the entries of the normalized fetched sequence whose
\* isActive is true or absent, in the original order; for HR it is the
\* normalized fetched sequence unchanged.
C1_RoleProjection ==
  LoadSucceeded =>
    /\ (isManager /\ ~isHR) =>
         templates = Arr(SelectSeq(ev.list.v, NotExplicitlyInactive))
    /\ isHR => templates = ev.list

C1_Witness ==
  /\ LoadSucceeded
  /\ isManager
  /\ Len(ev.list.v) = 2
  /\ ev.list.v[1].isActive = "false"
  /\ ev.list.v[2].isActive = "absent"
  /\ templates = Arr(<<ev.list.v[2]>>)

\* The list the three accepted shapes stand for: a bare sequence, else the
\* items sequence, else the data sequence, else the empty sequence.
ShapeList(body) ==
  IF body.kind = "array" THEN Arr(body.arr)
  ELSE IF body.kind = "object" /\ body.items.t = "arr" THEN body.items
  ELSE IF body.kind = "object" /\ body.data.t = "arr" THEN body.data
  ELSE Arr(<< >>)

\* C2: normalization maps a bare sequence S, {items: S} and {data: S} to S,
\* the first matching shape in the order bare, items, data winning, and maps
\* a body matching none of the shapes to the empty sequence.
C2_NormalizationShapes ==
  ev.op = "loadResolve" => ev.list = ShapeList(ev.body)

\* C3: when a load starts and no token is stored, no list request is issued,
\* the unauthenticated message is the error, the login page is pushed, and
\* the loading indicator is cleared when the call returns.
C3_NoTokenLoad ==
  [][(ev'.loadCalls > 0 /\ ~token) =>
       /\ gets' = gets
       /\ error' = MsgNotAuthenticated
       /\ HasPush(ev'.pushes, "/login")
       /\ loading' = FALSE]_vars

C3_Witness ==
  /\ ev.op = "mount"
  /\ ~token
  /\ gets = EmptyBag
  /\ error = MsgNotAuthenticated
  /\ ~loading

\* C4: when a list request fails the displayed collection is emptied, and
\* the error is: for 403 the insufficient-permission message, with no
\* redirect; for 401 the authentication-failed message, with a redirect to
\* login; otherwise the server's message if present, else the generic
\* connectivity message.
C4_LoadFailureMapping ==
  ev.op = "loadReject" =>
    /\ templates = Arr(<< >>)
    /\ (ev.err.hasResponse /\ ev.err.status = 403) =>
         error = MsgLoadForbidden /\ ev.pushes = << >>
    /\ (ev.err.hasResponse /\ ev.err.status = 401) =>
         error = MsgAuthFailed /\ ev.pushes = <<"/login">>
    /\ (~ev.err.hasResponse \/ ev.err.status \notin {401, 403}) =>
         error = IF MessagePresent(ev.err) THEN ev.err.message ELSE MsgLoadGeneric

C4_Witness ==
  /\ ev.op = "loadReject"
  /\ ev.err.hasResponse
  /\ ev.err.status = 400
  /\ ev.err.message = MsgServer
  /\ error = MsgServer
  /\ db # << >>

\* C5: after a successful load, if the normalized sequence is non-empty and
\* role filtering removed every entry, the no-active-templates message is
\* set and the displayed collection is empty; if the fetched sequence was
\* empty, the error is null and the displayed collection is empty.
C5_PostFilterPolicy ==
  (LoadSucceeded /\ ev.list.t = "arr") =>
    /\ ( /\ Len(ev.list.v) > 0
         /\ isManager /\ ~isHR
         /\ \A i \in DOMAIN ev.list.v : ev.list.v[i].isActive = "false" )
       => (error = MsgNoActive /\ templates = Arr(<< >>))
    /\ Len(ev.list.v) = 0 => (error = Null /\ templates = Arr(<< >>))

C5_Witness ==
  /\ LoadSucceeded
  /\ isManager
  /\ Len(ev.list.v) = 2
  /\ templates = Arr(<< >>)
  /\ error = MsgNoActive

\* C6: a declined delete issues no request and leaves the displayed
\* collection, the loading indicator, the error and the in-flight marker
\* unchanged.
C6_DeclineChangesNothing ==
  [][ev'.op = "deleteDecline" =>
       UNCHANGED <<templates, loading, error, operationLoading, gets, dels>>]_vars

C6_Witness ==
  /\ ev.op = "deleteDecline"
  /\ operationLoading = DeleteKey(1)
  /\ ev.id = 2

\* C7: a confirmed delete whose request succeeds calls loadTemplates exactly
\* once (one list request with a token stored, one login push without),
\* does not change the displayed collection itself, and leaves the
\* in-flight marker null.
C7_DeleteSuccessReloadsOnce ==
  [][ev'.op = "deleteResolve" =>
       /\ ev'.loadCalls = 1
       /\ gets' = IF token THEN gets (+) SetToBag({GetSent}) ELSE gets
       /\ ev'.pushes = IF token THEN << >> ELSE <<"/login">>
       /\ templates' = templates
       /\ operationLoading' = NoOperation]_vars

C7_Witness ==
  /\ ev.op = "deleteResolve"
  /\ token
  /\ BagIn(GetSent, gets)
  /\ ev.id \in IdsOf(templates.v)
  /\ operationLoading = NoOperation

\* C8: a confirmed delete whose request fails leaves the displayed
\* collection as it was, starts no reload, leaves the in-flight marker null,
\* and sets the error: for 403 the permission-denied message; for 400 the
\* server's message if present, else the generic delete-failure message;
\* otherwise the generic delete-failure message.
C8_DeleteFailureMapping ==
  [][ev'.op = "deleteReject" =>
       /\ templates' = templates
       /\ gets' = gets
       /\ ev'.loadCalls = 0
       /\ operationLoading' = NoOperation
       /\ error' =
            IF ev'.err.hasResponse /\ ev'.err.status = 403 THEN MsgDeleteForbidden
            ELSE IF ev'.err.hasResponse /\ ev'.err.status = 400
                    /\ MessagePresent(ev'.err) THEN ev'.err.message
            ELSE MsgDeleteGeneric]_vars

C8_Witness ==
  /\ ev.op = "deleteReject"
  /\ ev.err.hasResponse
  /\ ev.err.status = 401
  /\ ev.err.message = MsgServer
  /\ error = MsgDeleteGeneric
  /\ LengthIsPositive(templates)

\* C9: while a confirmed delete of an identifier is outstanding the marker
\* designates that identifier (its Delete button is disabled), so no second
\* delete request for it is in flight.
C9_MarkerPerIdentifier ==
  \A id \in Ids :
    BagIn(id, dels) =>
      (operationLoading = DeleteKey(id) /\ CopiesIn(id, dels) = 1)

\* C10: whenever a list request is outstanding the loading indicator is
\* true.
C10_LoadingWhileOutstanding ==
  gets # EmptyBag => loading

\* C11: a load that completes successfully with a non-empty displayed
\* collection leaves the error null, whatever else is in flight.
C11_SuccessClearsError ==
  LoadSucceeded /\ LengthIsPositive(templates) => error = Null

\* C12: a load called with no token redirects to the login; a delete request
\* is sent only with a token; a 401 answer, to a list request or to a delete,
\* redirects to the login.
C12_TokenOrLogin ==
  /\ ev.loadCalls > 0 /\ ~token => HasPush(ev.pushes, "/login")
  /\ ev.op = "deleteConfirm" => token
  /\ ev.op \in {"loadReject", "deleteReject"} /\ ev.err.hasResponse
       /\ ev.err.status = 401
     => HasPush(ev.pushes, "/login")

\* C13: the mount issues a redirect to the dashboard exactly when the role is
\* neither HR nor Manager.
C13_GuardRedirect ==
  ev.op = "mount" =>
    (HasPush(ev.pushes, "/dashboard") <=> currentRole \notin {"HR", "MANAGER"})

C13_Witness ==
  /\ ev.op = "mount"
  /\ currentRole = "OTHER"
  /\ HasPush(ev.pushes, "/dashboard")

\* C14: a delete is asked for, confirmed, in flight or answered only in a view
\* whose role is HR; the delete control and the create link are rendered only
\* for HR, the read-only banner only for Manager.
C14_DeleteOnlyHR ==
  /\ dels # EmptyBag => currentRole = "HR"
  /\ ev.op \in {"deleteDecline", "deleteConfirm", "deleteResolve", "deleteReject"}
     => currentRole = "HR"
  /\ \A id \in Ids : DeleteShown(id) => currentRole = "HR"
  /\ \A id \in Ids : currentRole = "MANAGER" /\ RowShown(id) => ~DeleteShown(id)
  /\ CreateShown => currentRole = "HR"
  /\ BannerShown => currentRole = "MANAGER"

C14_Witness ==
  /\ currentRole = "HR"
  /\ CreateShown
  /\ ev.op = "deleteConfirm"
  /\ dels # EmptyBag

\* C15: a failed list request, a failure while handling its answer and a
\* failed delete each end in an error message and send nothing again; a step
\* sends at most one list request per call of loadTemplates, and a confirmed
\* delete sends exactly one delete request.
C15_CaughtNoRetry ==
  [][/\ ev'.op = "loadReject"
        => error' # Null /\ gets' = gets (-) SetToBag({GetSent}) /\ dels' = dels
     /\ ev'.op = "loadResolve" /\ ev'.threw
        => /\ error' # Null
           /\ BagCardinality(gets') = BagCardinality(gets) - 1
           /\ dels' = dels
     /\ ev'.op = "deleteReject"
        => /\ error' # Null
           /\ gets' = gets
           /\ BagCardinality(dels') = BagCardinality(dels) - 1
     /\ BagCardinality(gets') <= BagCardinality(gets) + ev'.loadCalls
     /\ ev'.op = "deleteConfirm"
        => /\ BagCardinality(dels') = BagCardinality(dels) + 1
           /\ gets' = gets]_vars

C15_Witness ==
  /\ ev.op = "loadReject"
  /\ error # Null
  /\ gets = EmptyBag

\* How often bootstrap() has made a call, and whether one call came before the
\* i-th.
Count(step) == Cardinality({i \in DOMAIN bootLog : bootLog[i] = step})
Before(step, i) == \E j \in 1..(i - 1) : bootLog[j] = step

\* C16: the environment is configured once, before every other call of
\* bootstrap(); listen comes after the body limits, CORS and the documentation.
C16_ConfigFirstListenLast ==
  /\ Count(StepConfig) <= 1
  /\ \A i \in DOMAIN bootLog :
       bootLog[i] # StepConfig => Count(StepConfig) = 1 /\ Before(StepConfig, i)
  /\ \A i \in DOMAIN bootLog :
       bootLog[i] = StepListen
       => \A step \in {StepJson, StepUrlencoded, StepCors, StepSwagger} :
            Before(step, i)

C16_Witness ==
  /\ bootPc = "listening"
  /\ Called(StepListen)
  /\ Called(StepConfig)

\* C17: a request with an Origin header reaches the application's routes only
\* if the origin is the designated one, the method is one of the five and the
\* headers are among the two allowed.
C17_CorsRejectsOthers ==
  lastReq.handled /\ lastReq.origin # Absent /\ lastReq.routed
  => /\ lastReq.origin = "http://localhost:3000"
     /\ lastReq.method \in {"GET", "POST", "PATCH", "PUT", "DELETE"}
     /\ lastReq.headers \subseteq {"Content-Type", "Authorization"}

\* C18: the server is bound to PORT when PORT is set and not empty, to 3001
\* otherwise; readiness is logged only when listen has completed.
C18_PortAndReadiness ==
  /\ listening # Absent
     => listening = IF processEnv \in {Absent, ""} THEN "3001" ELSE processEnv
  /\ \A i \in DOMAIN bootLog :
       bootLog[i] = StepReady => Before(StepListen, i) /\ listening # Absent

C18_Witness ==
  /\ Called(StepReady)
  /\ processEnv = ""
  /\ listening = "3001"

\* C19: with the token in place, every list request answered and no request
\* left in flight, no template the backend no longer has is displayed.
C19_DeletedNotDisplayed ==
  token /\ gets = EmptyBag /\ dels = EmptyBag /\ templates.t = "arr"
  => IdsOf(templates.v) \subseteq IdsOf(db)

\* C20: with a role that is neither HR nor Manager no list request is in
\* flight and nothing is displayed.
C20_NoRoleNoData ==
  currentRole \notin {"HR", "MANAGER"}
  => gets = EmptyBag /\ templates = Arr(<< >>)

====
